---- MODULE Spec2Model ----
(***************************************************************************)
(* A model of linuxfs.py: the ioctl request-code codec (_IOC), the command *)
(* catalogue (FS), the raw syscall binder (def_syscall / make_funcptr) and *)
(* the high-level operations getflags, setflags, getfsxattr, setfsxattr,   *)
(* open_at and save_tmpfile.  The kernel and libc are the environment: the *)
(* outcome of every ioctl, openat2 and linkat call is chosen               *)
(* nondeterministically.                                                   *)
(***************************************************************************)
EXTENDS Integers, Sequences, FiniteSets, TLC

VARIABLES
    sizeof_long,  \* ct.sizeof(ct.c_long) of the platform the module is loaded on
    FS,           \* the command catalogue, computed once when the module is loaded
    ioc_phase,    \* codec session: "idle", "encoded" or "decoded"
    ioc_args,     \* the (dir, type, nr, size) last given to _IOC.IOC
    ioc_code,     \* the code _IOC.IOC returned
    ioc_dec,      \* what _IOC.DIR/TYPE/NR/SIZE did on that code
    held,         \* the FS.xattr object the caller holds from its last getfsxattr
    ct_errno,     \* the ctypes-private copy of errno (ct.get_errno())
    inv,          \* the current (last) invocation of a high-level operation
    calls,        \* the kernel calls that invocation issued, in order
    kret,         \* what the kernel answered to the last of them
    outcome,      \* how the invocation ended: a return value or an exception
    objs,         \* the ctypes function-pointer objects, by identity
    bindings,     \* the callables def_syscall has returned
    tramp         \* the last call that went through a bound callable

vars == <<sizeof_long, FS, ioc_phase, ioc_args, ioc_code, ioc_dec, held, ct_errno,
          inv, calls, kret, outcome, objs, bindings, tramp>>

iocVars == <<ioc_phase, ioc_args, ioc_code, ioc_dec>>
opVars == <<held, ct_errno, inv, calls, kret, outcome>>
bindVars == <<objs, bindings, tramp>>

(***************************************************************************)
(* Python values and results.                                              *)
(***************************************************************************)
PyInt(n) == [py |-> "int", s |-> "", n |-> n]
PyStr(c) == [py |-> "str", s |-> c, n |-> 0]
PyCType(name) == [py |-> "ctype", s |-> name, n |-> 0]
PyObj(kind, n) == [py |-> kind, s |-> "", n |-> n]

Ok(v) == [exc |-> "none", val |-> v]
Raise(e) == [exc |-> e, val |-> 0]

\* ord() of the characters the catalogue uses
ord(c) == CASE c = "f" -> 102 [] c = "v" -> 118 [] c = "X" -> 88

\* A Python int that may exceed TLC's 32-bit integers is held as its binary
\* digits, least significant first, without leading zero digits.
RECURSIVE ToBits(_)
ToBits(n) == IF n = 0 THEN <<>> ELSE <<n % 2>> \o ToBits(n \div 2)

RECURSIVE ToInt(_)
ToInt(b) == IF b = <<>> THEN 0 ELSE b[1] + 2 * ToInt(Tail(b))

RECURSIVE Norm(_)
Norm(b) ==
    IF b = <<>> THEN <<>>
    ELSE IF b[Len(b)] = 0 THEN Norm(SubSeq(b, 1, Len(b) - 1))
    ELSE b

RECURSIVE Zeros(_)
Zeros(k) == IF k = 0 THEN <<>> ELSE <<0>> \o Zeros(k - 1)

\* Python's <<, >>, | and & on non-negative integers
Shl(a, k) == IF a = <<>> THEN <<>> ELSE Zeros(k) \o a
Shr(a, k) == IF Len(a) <= k THEN <<>> ELSE SubSeq(a, k + 1, Len(a))

RECURSIVE BitOr(_, _)
BitOr(a, b) ==
    IF a = <<>> THEN b
    ELSE IF b = <<>> THEN a
    ELSE <<IF a[1] = 1 \/ b[1] = 1 THEN 1 ELSE 0>> \o BitOr(Tail(a), Tail(b))

RECURSIVE BitAndRaw(_, _)
BitAndRaw(a, b) ==
    IF a = <<>> \/ b = <<>> THEN <<>>
    ELSE <<IF a[1] = 1 /\ b[1] = 1 THEN 1 ELSE 0>> \o BitAndRaw(Tail(a), Tail(b))

BitAnd(a, b) == Norm(BitAndRaw(a, b))

(***************************************************************************)
(* Name resolution.  A lambda or def body looks a free name up in its own  *)
(* parameters, then in the module's globals, then in the builtins; the     *)
(* names bound in an enclosing class body are not searched.                *)
(***************************************************************************)
ModuleGlobals ==
    {"os", "enum", "ct", "atexit", "make_funcptr", "libc", "AT_FDCWD", "AT_EMPTY_PATH",
     "AT_SYMLINK_FOLLOW", "SYS", "def_syscall", "OPENAT2", "openat2", "_IOC", "FS",
     "_get_fileno", "_get_path", "_check_sts", "getflags", "setflags", "getfsxattr",
     "setfsxattr", "open_at", "save_tmpfile"}

Builtins == {"isinstance", "int", "str", "bytes", "bytearray", "ord", "len", "set",
             "hasattr", "getattr", "setattr", "type", "TypeError", "OSError"}

Resolves(names, params) == \A nm \in names : nm \in params \cup ModuleGlobals \cup Builtins

(***************************************************************************)
(* class _IOC                                                              *)
(***************************************************************************)
_IOC_NRBITS == 8
_IOC_TYPEBITS == 8
_IOC_SIZEBITS == 14
_IOC_DIRBITS == 2

_IOC_NRMASK == ToInt(Shl(ToBits(1), _IOC_NRBITS)) - 1
_IOC_TYPEMASK == ToInt(Shl(ToBits(1), _IOC_TYPEBITS)) - 1
_IOC_SIZEMASK == ToInt(Shl(ToBits(1), _IOC_SIZEBITS)) - 1
_IOC_DIRMASK == ToInt(Shl(ToBits(1), _IOC_DIRBITS)) - 1

_IOC_NRSHIFT == 0
_IOC_TYPESHIFT == _IOC_NRSHIFT + _IOC_NRBITS
_IOC_SIZESHIFT == _IOC_TYPESHIFT + _IOC_TYPEBITS
_IOC_DIRSHIFT == _IOC_SIZESHIFT + _IOC_SIZEBITS

_IOC_NONE == 0
_IOC_WRITE == 1
_IOC_READ == 2

\* the fields of FS.xattr, in order, with their sizes in bytes
xattr_fields ==
    << <<"fsx_xflags", 4>>, <<"fsx_extsize", 4>>, <<"fsx_nextents", 4>>,
       <<"fsx_projid", 4>>, <<"fsx_cowextsize", 4>>, <<"fsx_pad", 8>> >>

RECURSIVE SumSizes(_, _)
SumSizes(fields, i) ==
    IF i > Len(fields) THEN 0 ELSE fields[i][2] + SumSizes(fields, i + 1)

\* ct.sizeof of the ctypes types the catalogue measures (all fields of FS.xattr are
\* 4-byte aligned, so the structure has no padding of its own)
ct_sizeof(t, longsize) ==
    CASE t.s = "c_long" -> longsize
      [] t.s = "c_int" -> 4
      [] t.s = "xattr" -> SumSizes(xattr_fields, 1)

_IOC_TYPECHECK(t, longsize) ==
    IF t.py = "int" THEN t.n ELSE ct_sizeof(t, longsize)

_IOC_IOC(dir, type, nr, size) ==
    BitOr(BitOr(BitOr(Shl(ToBits(dir), _IOC_DIRSHIFT),
                      Shl(ToBits(IF type.py = "str" THEN ord(type.s) ELSE type.n),
                          _IOC_TYPESHIFT)),
                Shl(ToBits(nr), _IOC_NRSHIFT)),
          Shl(ToBits(size), _IOC_SIZESHIFT))

_IOC_IOR(type, nr, size, longsize) ==
    _IOC_IOC(_IOC_READ, type, nr, _IOC_TYPECHECK(size, longsize))

\* IOW written as a copy of IOR, the direction left at READ
_IOC_IOW_copied(type, nr, size, longsize) ==
    _IOC_IOC(_IOC_READ, type, nr, _IOC_TYPECHECK(size, longsize))

_IOC_IOW(type, nr, size, longsize) ==
    _IOC_IOC(_IOC_WRITE, type, nr, _IOC_TYPECHECK(size, longsize))

\* The decoders are lambdas in the class body: DIRSHIFT, DIRMASK, ... are free
\* names of the lambda, looked up when it is called.
_IOC_DIR(nr) ==
    IF Resolves({"DIRSHIFT", "DIRMASK"}, {"nr"})
    THEN Ok(ToInt(BitAnd(Shr(nr, _IOC_DIRSHIFT), ToBits(_IOC_DIRMASK))))
    ELSE Raise("NameError")

_IOC_TYPE(nr) ==
    IF Resolves({"TYPESHIFT", "TYPEMASK"}, {"nr"})
    THEN Ok(ToInt(BitAnd(Shr(nr, _IOC_TYPESHIFT), ToBits(_IOC_TYPEMASK))))
    ELSE Raise("NameError")

_IOC_NR(nr) ==
    IF Resolves({"NRSHIFT", "NRMASK"}, {"nr"})
    THEN Ok(ToInt(BitAnd(Shr(nr, _IOC_NRSHIFT), ToBits(_IOC_NRMASK))))
    ELSE Raise("NameError")

_IOC_SIZE(nr) ==
    IF Resolves({"SIZESHIFT", "SIZEMASK"}, {"nr"})
    THEN Ok(ToInt(BitAnd(Shr(nr, _IOC_SIZESHIFT), ToBits(_IOC_SIZEMASK))))
    ELSE Raise("NameError")

(***************************************************************************)
(* class FS: the command catalogue                                         *)
(***************************************************************************)
FS_FSLABEL_MAX == 256

FS_catalogue(longsize) ==
    [IOC_GETFLAGS |-> _IOC_IOR(PyStr("f"), 1, PyCType("c_long"), longsize),
     IOC_SETFLAGS |-> _IOC_IOW(PyStr("f"), 2, PyCType("c_long"), longsize),
     IOC_GETVERSION |-> _IOC_IOR(PyStr("v"), 1, PyCType("c_long"), longsize),
     IOC_SETVERSION |-> _IOC_IOW(PyStr("v"), 2, PyCType("c_long"), longsize),
     IOC32_GETFLAGS |-> _IOC_IOR(PyStr("f"), 1, PyCType("c_int"), longsize),
     IOC32_SETFLAGS |-> _IOC_IOW(PyStr("f"), 2, PyCType("c_int"), longsize),
     IOC32_GETVERSION |-> _IOC_IOR(PyStr("v"), 1, PyCType("c_int"), longsize),
     IOC32_SETVERSION |-> _IOC_IOW(PyStr("v"), 2, PyCType("c_int"), longsize),
     IOC_FSGETXATTR |-> _IOC_IOR(PyStr("X"), 31, PyCType("xattr"), longsize),
     IOC_FSSETXATTR |-> _IOC_IOW(PyStr("X"), 32, PyCType("xattr"), longsize),
     IOC_GETFSLABEL |-> _IOC_IOR(PyInt(148), 49, PyInt(FS_FSLABEL_MAX), longsize),
     IOC_SETFSLABEL |-> _IOC_IOW(PyInt(148), 50, PyInt(FS_FSLABEL_MAX), longsize)]

(***************************************************************************)
(* make_funcptr and def_syscall.  objs is the heap of ctypes function-     *)
(* pointer objects; objs[LibcSyscall] is libc.syscall as CDLL caches it.   *)
(* argtypes and restype belong to the Python object, not to the entry      *)
(* point it addresses.                                                     *)
(***************************************************************************)
LibcSyscall == 1

SYS_linkat == 37
SYS_openat2 == 437

AT_FDCWD == -100
AT_SYMLINK_FOLLOW == 1024

FreshFuncPtr(entry) ==
    [entry |-> entry, has_argtypes |-> FALSE, argtypes |-> <<>>, restype |-> "c_int"]

\* make_funcptr handing out the cached object itself
make_funcptr_shared(heap, ep) == [heap |-> heap, id |-> ep]

\* type(ep).from_address(ct.addressof(ep)): a new object on the same entry point
make_funcptr(heap, ep) ==
    [heap |-> Append(heap, FreshFuncPtr(heap[ep].entry)), id |-> Len(heap) + 1]

def_syscall(heap, name, code, args, res) ==
    LET mf == make_funcptr(heap, LibcSyscall)
        func == mf.id
    IN  [heap |-> [mf.heap EXCEPT ![func] =
                      [@ EXCEPT !.has_argtypes = TRUE,
                                !.argtypes = <<"c_long">> \o args,
                                !.restype = res]],
         callit |-> [name |-> name, code |-> code, func |-> func,
                     args |-> args, res |-> res]]

\* callit(*args): func(code, *args)
callit(heap, b, argv) ==
    [func |-> b.func, entry |-> heap[b.func].entry, argv |-> <<b.code>> \o argv,
     argtypes |-> heap[b.func].argtypes, restype |-> heap[b.func].restype]

openat2_argtypes == <<"c_int", "c_char_p", "POINTER(open_how)", "c_size_t">>

\* the state of the module once it is loaded: libc.syscall, and openat2 bound
ModuleLoad == def_syscall(<<FreshFuncPtr("syscall")>>, "openat2", SYS_openat2,
                          openat2_argtypes, "c_long")

(***************************************************************************)
(* ctypes structures and stores                                            *)
(***************************************************************************)
RECURSIVE FieldNames(_, _)
FieldNames(fields, i) ==
    IF i > Len(fields) THEN {} ELSE {fields[i][1]} \cup FieldNames(fields, i + 1)

RECURSIVE FirstBits(_, _)
FirstBits(b, w) == IF w = 0 \/ b = <<>> THEN <<>> ELSE <<b[1]>> \o FirstBits(Tail(b), w - 1)

\* storing a non-negative int into an unsigned field of w bits keeps its low w bits
c_uint(v, w) == ToInt(Norm(FirstBits(ToBits(v), w)))

open_how_fields == << <<"flags", 8>>, <<"mode", 8>>, <<"resolve", 8>> >>

\* a new structure object is zero-filled
NewStruct(fields) == [f \in FieldNames(fields, 1) |-> 0]

RECURSIVE FieldSize(_, _, _)
FieldSize(fields, f, i) ==
    IF fields[i][1] = f THEN fields[i][2] ELSE FieldSize(fields, f, i + 1)

setattr(fields, x, f, v) == [x EXCEPT ![f] = c_uint(v, 8 * FieldSize(fields, f, 1))]

\* the keyword loop left after its first round
ApplyKw_first(fields, x, kwargs, valid, i) ==
    IF i > Len(kwargs) THEN [exc |-> "none", x |-> x]
    ELSE IF kwargs[i][1] \notin valid THEN [exc |-> "TypeError", x |-> x]
    ELSE [exc |-> "none", x |-> setattr(fields, x, kwargs[i][1], kwargs[i][2])]

\* the keyword loop of setfsxattr and open_at: the first name that is not valid
\* raises; the names before it have been stored
RECURSIVE ApplyKw(_, _, _, _, _)
ApplyKw(fields, x, kwargs, valid, i) ==
    IF i > Len(kwargs) THEN [exc |-> "none", x |-> x]
    ELSE IF kwargs[i][1] \notin valid THEN [exc |-> "TypeError", x |-> x]
    ELSE ApplyKw(fields, setattr(fields, x, kwargs[i][1], kwargs[i][2]), kwargs, valid, i + 1)

(***************************************************************************)
(* _get_fileno, _get_path, _check_sts                                      *)
(***************************************************************************)
_get_fileno(fd) ==
    IF fd.py # "int"
    THEN IF fd.py = "fileobj" THEN Ok(fd.n) ELSE Raise("TypeError")
    ELSE Ok(fd.n)

\* str.encode(): UTF-8 of a sequence of code points below 2048
RECURSIVE encode(_)
encode(cp) ==
    IF cp = <<>> THEN <<>>
    ELSE (IF cp[1] < 128 THEN <<cp[1]>>
          ELSE <<192 + (cp[1] \div 64), 128 + (cp[1] % 64)>>) \o encode(Tail(cp))

_get_path(pathname) ==
    IF pathname.py = "str" THEN [exc |-> "none", val |-> encode(pathname.cp)]
    ELSE IF pathname.py # "bytes" THEN [exc |-> "TypeError", val |-> <<>>]
    ELSE [exc |-> "none", val |-> pathname.cp]

\* _get_path(pathname, argname): both parameters are required
_get_path_required == 2

\* a call of _get_path with nargs positional arguments
call_get_path(pathname, nargs) ==
    IF nargs # _get_path_required THEN [exc |-> "TypeError", val |-> <<>>]
    ELSE _get_path(pathname)

\* _check_sts testing for a nonzero result
_check_sts_nonzero(sts, errno) ==
    IF sts # 0 THEN [exc |-> "OSError", errno |-> errno]
    ELSE [exc |-> "none", errno |-> 0]

\* sts is the call's result, errno what ct.get_errno() returns after it
_check_sts(sts, errno) ==
    IF sts < 0 THEN [exc |-> "OSError", errno |-> errno]
    ELSE [exc |-> "none", errno |-> 0]

(***************************************************************************)
(* Calls into libc.  libc is loaded with use_errno = True, so after the    *)
(* call ct.get_errno() holds the errno the call left: the kernel's on a    *)
(* failing call, the previous value on a successful one.  k is the         *)
(* kernel's answer, errno0 the value of ct.get_errno() before the call.    *)
(***************************************************************************)
ForeignCall(call, k, errno0) ==
    [calls |-> <<call>>, ret |-> k.ret,
     errno |-> IF k.ret < 0 THEN k.errno ELSE errno0]

ZeroXattr == NewStruct(xattr_fields)

\* an invocation that raised exc without reaching libc
Raised(exc, errno0) ==
    [exc |-> exc, errno |-> 0, val |-> 0, xattr |-> ZeroXattr, calls |-> <<>>,
     ct_errno |-> errno0]

\* an invocation that issued call c: _check_sts decides how it ends
Checked(c, val, xattr) ==
    LET sts == _check_sts(c.ret, c.errno)
    IN  [exc |-> sts.exc, errno |-> sts.errno,
         val |-> IF sts.exc = "none" THEN val ELSE 0,
         xattr |-> IF sts.exc = "none" THEN xattr ELSE ZeroXattr,
         calls |-> c.calls, ct_errno |-> c.errno]

(***************************************************************************)
(* The high-level operations                                               *)
(***************************************************************************)
getflags(fd, k, errno0) ==
    LET fno == _get_fileno(fd)
    IN  IF fno.exc # "none" THEN Raised(fno.exc, errno0)
        ELSE LET c == ForeignCall([fn |-> "ioctl", fd |-> fno.val,
                                   request |-> FS.IOC_GETFLAGS,
                                   buf |-> [value |-> 0]], k, errno0)
             IN  Checked(c, k.flags, ZeroXattr)

setflags(fd, flags, k, errno0) ==
    LET fno == _get_fileno(fd)
    IN  IF fno.exc # "none" THEN Raised(fno.exc, errno0)
        ELSE LET c == ForeignCall([fn |-> "ioctl", fd |-> fno.val,
                                   request |-> FS.IOC_SETFLAGS,
                                   buf |-> [value |-> flags]], k, errno0)
             IN  Checked(c, 0, ZeroXattr)

getfsxattr(fd, k, errno0) ==
    LET fno == _get_fileno(fd)
    IN  IF fno.exc # "none" THEN Raised(fno.exc, errno0)
        ELSE LET c == ForeignCall([fn |-> "ioctl", fd |-> fno.val,
                                   request |-> FS.IOC_FSGETXATTR,
                                   buf |-> ZeroXattr], k, errno0)
             IN  Checked(c, 0, k.xattr)

setfsxattr_valid == FieldNames(xattr_fields, 1) \ {"fsx_pad"}

\* setfsxattr as its docstring describes it: without the test that refuses a
\* positional FS.xattr together with keywords
setfsxattr_docstring(fd, args, kwargs, k, errno0) ==
    IF Len(args) + Len(kwargs) = 0 THEN Raised("TypeError", errno0)
    ELSE IF Len(args) > 1 THEN Raised("TypeError", errno0)
    ELSE IF Len(args) > 0 /\ args[1].py # "xattr" THEN Raised("TypeError", errno0)
    ELSE LET xattr == IF Len(args) > 0 THEN args[1].x ELSE NewStruct(xattr_fields)
             kw == ApplyKw(xattr_fields, xattr, kwargs, setfsxattr_valid, 1)
             fno == _get_fileno(fd)
         IN  IF kw.exc # "none" THEN Raised(kw.exc, errno0)
             ELSE IF fno.exc # "none" THEN Raised(fno.exc, errno0)
             ELSE Checked(ForeignCall([fn |-> "ioctl", fd |-> fno.val,
                                       request |-> FS.IOC_FSSETXATTR,
                                       buf |-> kw.x], k, errno0),
                          0, ZeroXattr)

setfsxattr(fd, args, kwargs, k, errno0) ==
    IF Len(args) + Len(kwargs) = 0 THEN Raised("TypeError", errno0)
    ELSE IF Len(args) > 1 THEN Raised("TypeError", errno0)
    ELSE IF Len(args) > 0 /\ args[1].py # "xattr" THEN Raised("TypeError", errno0)
    ELSE IF (Len(args) # 0) = (Len(kwargs) # 0) THEN Raised("TypeError", errno0)
    ELSE LET xattr == IF Len(args) > 0 THEN args[1].x ELSE NewStruct(xattr_fields)
             kw == ApplyKw(xattr_fields, xattr, kwargs, setfsxattr_valid, 1)
             fno == _get_fileno(fd)
         IN  IF kw.exc # "none" THEN Raised(kw.exc, errno0)
             ELSE IF fno.exc # "none" THEN Raised(fno.exc, errno0)
             ELSE Checked(ForeignCall([fn |-> "ioctl", fd |-> fno.val,
                                       request |-> FS.IOC_FSSETXATTR,
                                       buf |-> kw.x], k, errno0),
                          0, ZeroXattr)

\* open_at checking the keyword names only after openat2 has been called
open_at_latecheck(dirfd, pathname, kwargs, k, errno0) ==
    LET how == NewStruct(open_how_fields)
        valid == FieldNames(open_how_fields, 1)
        kw == ApplyKw(open_how_fields, how, SelectSeq(kwargs, LAMBDA p : p[1] \in valid),
                      valid, 1)
        fno == _get_fileno(dirfd)
        c_path == call_get_path(pathname, 2)
    IN  IF fno.exc # "none" THEN Raised(fno.exc, errno0)
        ELSE IF c_path.exc # "none" THEN Raised(c_path.exc, errno0)
        ELSE LET t == callit(ModuleLoad.heap, ModuleLoad.callit, <<>>)
                 c == ForeignCall([fn |-> t.entry, number |-> t.argv[1], fd |-> fno.val,
                                   path |-> c_path.val, how |-> kw.x,
                                   size |-> SumSizes(open_how_fields, 1)], k, errno0)
             IN  IF \E i \in 1..Len(kwargs) : kwargs[i][1] \notin valid
                 THEN [Raised("TypeError", c.errno) EXCEPT !.calls = c.calls]
                 ELSE Checked(c, c.ret, ZeroXattr)

\* open_at calling openat2 again when the first call fails with EAGAIN or EINTR
open_at_retry(dirfd, pathname, kwargs, k, errno0) ==
    LET how == NewStruct(open_how_fields)
        kw == ApplyKw(open_how_fields, how, kwargs, FieldNames(open_how_fields, 1), 1)
        fno == _get_fileno(dirfd)
        c_path == call_get_path(pathname, 2)
    IN  IF kw.exc # "none" THEN Raised(kw.exc, errno0)
        ELSE IF fno.exc # "none" THEN Raised(fno.exc, errno0)
        ELSE IF c_path.exc # "none" THEN Raised(c_path.exc, errno0)
        ELSE LET t == callit(ModuleLoad.heap, ModuleLoad.callit, <<>>)
                 c == ForeignCall([fn |-> t.entry, number |-> t.argv[1], fd |-> fno.val,
                                   path |-> c_path.val, how |-> kw.x,
                                   size |-> SumSizes(open_how_fields, 1)], k, errno0)
             IN  IF c.ret < 0 /\ c.errno \in {4, 11}
                 THEN Checked([c EXCEPT !.calls = c.calls \o c.calls], c.ret, ZeroXattr)
                 ELSE Checked(c, c.ret, ZeroXattr)

open_at(dirfd, pathname, kwargs, k, errno0) ==
    LET how == NewStruct(open_how_fields)
        kw == ApplyKw(open_how_fields, how, kwargs, FieldNames(open_how_fields, 1), 1)
        fno == _get_fileno(dirfd)
        c_path == call_get_path(pathname, 2)
    IN  IF kw.exc # "none" THEN Raised(kw.exc, errno0)
        ELSE IF fno.exc # "none" THEN Raised(fno.exc, errno0)
        ELSE IF c_path.exc # "none" THEN Raised(c_path.exc, errno0)
        ELSE LET t == callit(ModuleLoad.heap, ModuleLoad.callit, <<>>)
                 c == ForeignCall([fn |-> t.entry, number |-> t.argv[1], fd |-> fno.val,
                                   path |-> c_path.val, how |-> kw.x,
                                   size |-> SumSizes(open_how_fields, 1)], k, errno0)
             IN  Checked(c, c.ret, ZeroXattr)

RECURSIVE Digits(_)
Digits(n) == IF n < 10 THEN <<48 + n>> ELSE Digits(n \div 10) \o <<48 + (n % 10)>>

\* "/proc/self/fd/%d" % n
ProcSelfFd(n) ==
    <<47, 112, 114, 111, 99, 47, 115, 101, 108, 102, 47, 102, 100, 47>> \o Digits(n)

\* save_tmpfile calls _get_path with one argument and then looks up the name
\* _get_file; were both to succeed, the descriptor would go into the linkat call
save_tmpfile(fd, path, k, errno0) ==
    LET c_path == call_get_path(path, 1)
        fno == _get_fileno(fd)
    IN  IF c_path.exc # "none" THEN Raised(c_path.exc, errno0)
        ELSE IF ~Resolves({"_get_file"}, {"fd", "path", "c_path"})
        THEN Raised("NameError", errno0)
        ELSE IF fno.exc # "none" THEN Raised(fno.exc, errno0)
        ELSE Checked(ForeignCall([fn |-> "linkat", olddirfd |-> AT_FDCWD,
                                  oldpath |-> encode(ProcSelfFd(fno.val)),
                                  newdirfd |-> AT_FDCWD, newpath |-> c_path.val,
                                  flags |-> AT_SYMLINK_FOLLOW], k, errno0),
                     0, ZeroXattr)

(***************************************************************************)
(* Inputs of the callers and answers of the kernel                         *)
(***************************************************************************)
MaxKw == 2
MaxBindings == 3

\* an int descriptor, an object whose fileno() returns 4, an object without fileno
FdInputs == {PyInt(3), PyObj("fileobj", 4), PyObj("object", 0)}

\* "a", "é", b"a" and a value that is no path
PathInputs ==
    {[py |-> "str", cp |-> <<97>>], [py |-> "str", cp |-> <<233>>],
     [py |-> "bytes", cp |-> <<97>>], [py |-> "int", cp |-> <<>>]}

Errnos == {1, 4, 11}   \* EPERM, EINTR, EAGAIN
KwValues == {7, 2147483647}
FlagValues == {0, 128}
NewFds == {0, 5}

XattrKwNames == {"fsx_projid", "fsx_extsize", "fsx_pad", "bogus"}
OpenKwNames == {"flags", "resolve", "bogus"}

KernelXattrs ==
    {[ZeroXattr EXCEPT !["fsx_xflags"] = 2048, !["fsx_extsize"] = 4096,
                       !["fsx_nextents"] = 3],
     [ZeroXattr EXCEPT !["fsx_projid"] = 42, !["fsx_nextents"] = 1]}

\* keyword arguments in call order: distinct names, at most MaxKw of them
RECURSIVE KwSeqs(_, _)
KwSeqs(names, n) ==
    IF n = 0 THEN {<<>>}
    ELSE LET shorter == KwSeqs(names, n - 1)
         IN  shorter \cup
             {Append(q, <<nm, v>>) :
                 q \in {r \in shorter : Len(r) = n - 1},
                 nm \in names, v \in KwValues}

DistinctNames(q) == \A i, j \in 1..Len(q) : i # j => q[i][1] # q[j][1]

Kwargs(names) == {q \in KwSeqs(names, MaxKw) : DistinctNames(q)}

XattrKwargs == Kwargs(XattrKwNames)
OpenKwargs == Kwargs(OpenKwNames)

KFail == {[ret |-> -1, errno |-> e, flags |-> 0, xattr |-> ZeroXattr] : e \in Errnos}
KOk(ret, flags, x) == [ret |-> ret, errno |-> 0, flags |-> flags, xattr |-> x]

NoInv == [op |-> "none", fd |-> PyInt(0), args |-> <<>>, kwargs |-> <<>>,
          path |-> [py |-> "int", cp |-> <<>>], flags |-> 0]
NoAnswer == [ret |-> 0, errno |-> 0]
NoTramp == [by |-> 0, given |-> <<>>, func |-> 0, entry |-> "", argv |-> <<>>,
            argtypes |-> <<>>, restype |-> ""]
NoOutcome == [exc |-> "none", errno |-> 0, val |-> 0, xattr |-> ZeroXattr]
NoHeld == [has |-> FALSE, fd |-> 0, x |-> ZeroXattr]

NoIocArgs == [dir |-> 0, type |-> PyInt(0), nr |-> 0, size |-> 0]
NoIocDec == [DIR |-> Ok(0), TYPE |-> Ok(0), NR |-> Ok(0), SIZE |-> Ok(0)]

Init ==
    /\ sizeof_long \in {4, 8}
    /\ FS = FS_catalogue(sizeof_long)
    /\ ioc_phase = "idle"
    /\ ioc_args = NoIocArgs
    /\ ioc_code = <<>>
    /\ ioc_dec = NoIocDec
    /\ held = NoHeld
    /\ ct_errno = 0
    /\ inv = NoInv
    /\ calls = <<>>
    /\ kret = NoAnswer
    /\ outcome = NoOutcome
    /\ objs = ModuleLoad.heap
    /\ bindings = <<ModuleLoad.callit>>
    /\ tramp = NoTramp

(***************************************************************************)
(* One invocation of a high-level operation, from call to return or raise  *)
(***************************************************************************)
Finish(i, r, k) ==
    /\ inv' = i
    /\ calls' = r.calls
    /\ kret' = IF r.calls = <<>> THEN NoAnswer ELSE [ret |-> k.ret, errno |-> k.errno]
    /\ outcome' = [exc |-> r.exc, errno |-> r.errno, val |-> r.val, xattr |-> r.xattr]
    /\ ct_errno' = r.ct_errno
    /\ UNCHANGED <<sizeof_long, FS, iocVars, bindVars>>

GetFlags ==
    /\ inv.op = "none"
    /\ \E fd \in FdInputs, k \in KFail \cup {KOk(0, f, ZeroXattr) : f \in FlagValues} :
        /\ Finish([NoInv EXCEPT !.op = "getflags", !.fd = fd],
                  getflags(fd, k, ct_errno), k)
        /\ UNCHANGED held

SetFlags ==
    /\ inv.op = "none"
    /\ \E fd \in FdInputs, flags \in FlagValues, k \in KFail \cup {KOk(0, 0, ZeroXattr)} :
        /\ Finish([NoInv EXCEPT !.op = "setflags", !.fd = fd, !.flags = flags],
                  setflags(fd, flags, k, ct_errno), k)
        /\ UNCHANGED held

GetFsXattr ==
    /\ inv.op = "none"
    /\ \E fd \in FdInputs, k \in KFail \cup {KOk(0, 0, x) : x \in KernelXattrs} :
        LET r == getfsxattr(fd, k, ct_errno)
        IN  /\ Finish([NoInv EXCEPT !.op = "getfsxattr", !.fd = fd], r, k)
            /\ held' = IF r.exc = "none"
                       THEN [has |-> TRUE, fd |-> _get_fileno(fd).val, x |-> r.xattr]
                       ELSE held

\* the positional arguments a caller passes after fd: nothing, the FS.xattr it
\* holds, something that is no FS.xattr, or two values
PositionalInputs ==
    LET base == [py |-> "xattr", x |-> held.x]
    IN  {<<>>, <<base>>, <<[py |-> "int", x |-> ZeroXattr]>>, <<base, base>>}

SetFsXattr ==
    /\ inv.op = "none"
    /\ \E fd \in FdInputs, args \in PositionalInputs, kwargs \in XattrKwargs,
       k \in KFail \cup {KOk(0, 0, ZeroXattr)} :
        /\ Finish([NoInv EXCEPT !.op = "setfsxattr", !.fd = fd, !.args = args,
                                !.kwargs = kwargs],
                  setfsxattr(fd, args, kwargs, k, ct_errno), k)
        /\ UNCHANGED held

OpenAt ==
    /\ inv.op = "none"
    /\ \E dirfd \in FdInputs, pathname \in PathInputs, kwargs \in OpenKwargs,
       k \in KFail \cup {KOk(n, 0, ZeroXattr) : n \in NewFds} :
        /\ Finish([NoInv EXCEPT !.op = "open_at", !.fd = dirfd, !.path = pathname,
                                !.kwargs = kwargs],
                  open_at(dirfd, pathname, kwargs, k, ct_errno), k)
        /\ UNCHANGED held

SaveTmpfile ==
    /\ inv.op = "none"
    /\ \E fd \in FdInputs, path \in PathInputs, k \in KFail \cup {KOk(0, 0, ZeroXattr)} :
        /\ Finish([NoInv EXCEPT !.op = "save_tmpfile", !.fd = fd, !.path = path],
                  save_tmpfile(fd, path, k, ct_errno), k)
        /\ UNCHANGED held

\* the caller has taken the result or the exception and goes on
Return ==
    /\ inv.op # "none"
    /\ inv' = NoInv
    /\ calls' = <<>>
    /\ kret' = NoAnswer
    /\ outcome' = NoOutcome
    /\ UNCHANGED <<held, ct_errno, sizeof_long, FS, iocVars, bindVars>>

Next ==
    GetFlags \/ SetFlags \/ GetFsXattr \/ SetFsXattr \/ OpenAt \/ SaveTmpfile \/ Return

Spec == Init /\ [][Next]_vars

(***************************************************************************)
(* The codec: a caller packs a code and decodes it                         *)
(***************************************************************************)
DirInputs == 0..3
TypeInputs == {PyInt(0), PyInt(148), PyInt(255), PyStr("f"), PyStr("v"), PyStr("X")}
NrInputs == {0, 1, 2, 31, 32, 49, 50, 255}
SizeInputs == {0, 4, 8, 28, 256, 16383}

IocEncode ==
    /\ ioc_phase = "idle"
    /\ \E dir \in DirInputs, type \in TypeInputs, nr \in NrInputs, size \in SizeInputs :
        /\ ioc_args' = [dir |-> dir, type |-> type, nr |-> nr, size |-> size]
        /\ ioc_code' = _IOC_IOC(dir, type, nr, size)
        /\ ioc_phase' = "encoded"
        /\ UNCHANGED <<ioc_dec, sizeof_long, FS, opVars, bindVars>>

IocDecode ==
    /\ ioc_phase = "encoded"
    /\ ioc_dec' = [DIR |-> _IOC_DIR(ioc_code), TYPE |-> _IOC_TYPE(ioc_code),
                   NR |-> _IOC_NR(ioc_code), SIZE |-> _IOC_SIZE(ioc_code)]
    /\ ioc_phase' = "decoded"
    /\ UNCHANGED <<ioc_args, ioc_code, sizeof_long, FS, opVars, bindVars>>

\* the caller drops the code and the decoded fields
IocForget ==
    /\ ioc_phase = "decoded"
    /\ ioc_phase' = "idle"
    /\ ioc_args' = NoIocArgs
    /\ ioc_code' = <<>>
    /\ ioc_dec' = NoIocDec
    /\ UNCHANGED <<sizeof_long, FS, opVars, bindVars>>

NextIoc == IocEncode \/ IocDecode \/ IocForget

SpecIoc == Init /\ [][NextIoc]_vars

(***************************************************************************)
(* The binder: callers bind further syscalls and call the bound callables  *)
(***************************************************************************)
SyscallInputs == {<<"linkat", SYS_linkat>>, <<"openat2", SYS_openat2>>}
ArgSigInputs == {<<"c_int", "c_char_p">>, openat2_argtypes}
ResInputs == {"c_int", "c_long"}
ArgvInputs == {<<>>, <<3>>, <<3, 9>>}

BindSyscall ==
    \E sc \in SyscallInputs, args \in ArgSigInputs, res \in ResInputs :
        /\ Len(bindings) < MaxBindings
        /\ LET d == def_syscall(objs, sc[1], sc[2], args, res)
           IN  /\ objs' = d.heap
               /\ bindings' = Append(bindings, d.callit)
        /\ UNCHANGED <<tramp, sizeof_long, FS, iocVars, opVars>>

CallBound ==
    \E i \in 1..Len(bindings), argv \in ArgvInputs :
        /\ LET t == callit(objs, bindings[i], argv)
           IN  tramp' = [by |-> i, given |-> argv, func |-> t.func, entry |-> t.entry,
                         argv |-> t.argv, argtypes |-> t.argtypes,
                         restype |-> t.restype]
        /\ UNCHANGED <<objs, bindings, sizeof_long, FS, iocVars, opVars>>

NextBind == BindSyscall \/ CallBound

SpecBind == Init /\ [][NextBind]_vars

(***************************************************************************)
(* Properties                                                              *)
(***************************************************************************)
TypeOrd(t) == IF t.py = "str" THEN ord(t.s) ELSE t.n

\* C1: decoding the code packed from (dir, type, nr, size) with _IOC.DIR, _IOC.TYPE,
\* _IOC.NR and _IOC.SIZE gives back exactly (dir, type, nr, size).
C1_DecodeInvertsEncode ==
    ioc_phase = "decoded" =>
        /\ ioc_dec.DIR = Ok(ioc_args.dir)
        /\ ioc_dec.TYPE = Ok(TypeOrd(ioc_args.type))
        /\ ioc_dec.NR = Ok(ioc_args.nr)
        /\ ioc_dec.SIZE = Ok(ioc_args.size)

\* the two 16-bit halves of a code: <<direction and size, type and number>>
Halves(code) == <<ToInt(Shr(code, 16)), ToInt(Norm(FirstBits(code, 16)))>>

\* the same halves worked out by hand from the four fields
Reference(dir, type, nr, size) == <<dir * 16384 + size, type * 256 + nr>>

\* C2: every catalogued code equals the reference value of its direction (read 2,
\* write 1), magic type ('f' 102, 'v' 118, 'X' 88, 0x94), number and payload size
\* (native long, native int 4, the 28-byte fsxattr aggregate, 256).
C2_CatalogueMatchesReference ==
    /\ Halves(FS.IOC_GETFLAGS) = Reference(2, 102, 1, sizeof_long)
    /\ Halves(FS.IOC_SETFLAGS) = Reference(1, 102, 2, sizeof_long)
    /\ Halves(FS.IOC_GETVERSION) = Reference(2, 118, 1, sizeof_long)
    /\ Halves(FS.IOC_SETVERSION) = Reference(1, 118, 2, sizeof_long)
    /\ Halves(FS.IOC32_GETFLAGS) = Reference(2, 102, 1, 4)
    /\ Halves(FS.IOC32_SETFLAGS) = Reference(1, 102, 2, 4)
    /\ Halves(FS.IOC32_GETVERSION) = Reference(2, 118, 1, 4)
    /\ Halves(FS.IOC32_SETVERSION) = Reference(1, 118, 2, 4)
    /\ Halves(FS.IOC_FSGETXATTR) = Reference(2, 88, 31, 28)
    /\ Halves(FS.IOC_FSSETXATTR) = Reference(1, 88, 32, 28)
    /\ Halves(FS.IOC_GETFSLABEL) = Reference(2, 148, 49, 256)
    /\ Halves(FS.IOC_SETFSLABEL) = Reference(1, 148, 50, 256)

\* a catalogued code has gone to the kernel on a platform with 8-byte longs
C2_Witness ==
    /\ sizeof_long = 8
    /\ inv.op = "getflags"
    /\ Len(calls) = 1
    /\ Halves(calls[1].request) = <<32776, 26113>>

FdUsable(fd) == _get_fileno(fd).exc = "none"

\* C3: setfsxattr(fd, base, field = N), with base the aggregate getfsxattr(fd)
\* returned and field one valid field name, writes to the kernel an aggregate that
\* differs from base in that field only.
C3_UpdateOneField ==
    ( /\ inv.op = "setfsxattr"
      /\ held.has
      /\ FdUsable(inv.fd)
      /\ _get_fileno(inv.fd).val = held.fd
      /\ inv.args = <<[py |-> "xattr", x |-> held.x]>>
      /\ Len(inv.kwargs) = 1
      /\ inv.kwargs[1][1] \in setfsxattr_valid )
    => /\ Len(calls) = 1
       /\ calls[1].request = FS.IOC_FSSETXATTR
       /\ calls[1].buf = [held.x EXCEPT ![inv.kwargs[1][1]] = inv.kwargs[1][2]]

C5_SaveTmpfileLinks ==
    ( /\ inv.op = "save_tmpfile"
      /\ FdUsable(inv.fd)
      /\ inv.path.py \in {"str", "bytes"} )
    => /\ calls = << [fn |-> "linkat", olddirfd |-> AT_FDCWD,
                      oldpath |-> encode(ProcSelfFd(_get_fileno(inv.fd).val)),
                      newdirfd |-> AT_FDCWD, newpath |-> _get_path(inv.path).val,
                      flags |-> AT_SYMLINK_FOLLOW] >>
       /\ kret.ret >= 0 => outcome.exc = "none"

\* C6: an open_at or setfsxattr invocation that ends in an argument error has
\* issued no ioctl and no openat2 call.
C6_ArgumentErrorBeforeKernel ==
    (inv.op \in {"open_at", "setfsxattr"} /\ outcome.exc = "TypeError") => calls = <<>>

\* open_at with an unknown keyword, on a usable descriptor and path, was refused
C6_Witness ==
    /\ inv.op = "open_at"
    /\ FdUsable(inv.fd)
    /\ inv.path.py = "str"
    /\ inv.kwargs = << <<"resolve", 7>>, <<"bogus", 7>> >>
    /\ outcome.exc = "TypeError"

\* C7: getflags, setflags, getfsxattr, setfsxattr and open_at raise a system-call
\* error exactly when the ioctl or openat2 call returned a negative value, with the
\* errno the kernel reported; otherwise nothing is raised and open_at returns the
\* call's result.
C7_ErrnoPreserved ==
    inv.op \in {"getflags", "setflags", "getfsxattr", "setfsxattr", "open_at"} =>
        /\ outcome.exc = "OSError" <=> (Len(calls) = 1 /\ kret.ret < 0)
        /\ outcome.exc = "OSError" => outcome.errno = kret.errno
        /\ (Len(calls) = 1 /\ kret.ret >= 0) =>
               /\ outcome.exc = "none"
               /\ inv.op = "open_at" => outcome.val = kret.ret

\* the ioctl of getflags failed with EPERM and getflags raised it
C7_Witness ==
    /\ inv.op = "getflags"
    /\ Len(calls) = 1
    /\ kret = [ret |-> -1, errno |-> 1]
    /\ outcome.exc = "OSError"
    /\ outcome.errno = 1

\* C8: an invocation issues at most one kernel call; a call that fails, with EAGAIN,
\* EINTR or anything else, is not issued again and its failure reaches the caller.
C8_NoRetry ==
    /\ Len(calls) <= 1
    /\ (Len(calls) = 1 /\ kret.ret < 0) =>
           (outcome.exc = "OSError" /\ outcome.errno = kret.errno)

\* openat2 failed with EAGAIN
C8_Witness ==
    /\ inv.op = "open_at"
    /\ Len(calls) = 1
    /\ kret = [ret |-> -1, errno |-> 11]
    /\ outcome.exc = "OSError"

Named(kwargs, f) == \E i \in 1..Len(kwargs) : kwargs[i][1] = f
ValueOf(kwargs, f) == kwargs[CHOOSE i \in 1..Len(kwargs) : kwargs[i][1] = f][2]

\* C9: setfsxattr with keywords only writes to the kernel an aggregate where each
\* named field has the given value and every other field, the extent count and the
\* padding included, is zero.
C9_KeywordsOverZero ==
    (inv.op = "setfsxattr" /\ Len(inv.args) = 0 /\ Len(calls) = 1) =>
        calls[1].buf = [f \in FieldNames(xattr_fields, 1) |->
                            IF Named(inv.kwargs, f) THEN ValueOf(inv.kwargs, f) ELSE 0]

\* two fields were named and the aggregate went to the kernel
C9_Witness ==
    /\ inv.op = "setfsxattr"
    /\ inv.kwargs = << <<"fsx_extsize", 7>>, <<"fsx_projid", 2147483647>> >>
    /\ Len(calls) = 1
    /\ calls[1].request = FS.IOC_FSSETXATTR
    /\ outcome.exc = "none"

\* C10: every bound callable keeps the signature it was bound with and passes its
\* own syscall number, then the caller's arguments, to the syscall entry point;
\* libc.syscall itself keeps its signature.
C10_BindingsIndependent ==
    /\ \A i \in 1..Len(bindings) :
           /\ objs[bindings[i].func].entry = "syscall"
           /\ objs[bindings[i].func].has_argtypes
           /\ objs[bindings[i].func].argtypes = <<"c_long">> \o bindings[i].args
           /\ objs[bindings[i].func].restype = bindings[i].res
    /\ objs[LibcSyscall] = FreshFuncPtr("syscall")
    /\ tramp.by # 0 =>
           /\ tramp.entry = "syscall"
           /\ tramp.argv = <<bindings[tramp.by].code>> \o tramp.given
           /\ tramp.argtypes = <<"c_long">> \o bindings[tramp.by].args
           /\ tramp.restype = bindings[tramp.by].res

\* the first binding was called after two more, of other signatures, were made
C10_Witness ==
    /\ Len(bindings) = 3
    /\ bindings[2].args # bindings[1].args
    /\ bindings[3].res # bindings[1].res
    /\ tramp.by = 1
    /\ tramp.given = <<3, 9>>

====
